---- MODULE Spec2Model ----
(***************************************************************************)
(* Model of the terminal Pomodoro timer (src/pomodoro.py): the             *)
(* PomodoroTimer object, its run loop, tick, the two transition prompts    *)
(* (start_break, start_sprint), extend, and the top-level interrupt        *)
(* handler.                                                                *)
(*                                                                         *)
(* Times are in milliseconds, as in the source.  A response typed at a     *)
(* prompt is a sequence of characters, so that int() is modelled by what   *)
(* it does to the characters.  A printable ASCII character is the string   *)
(* holding it, tab, line feed, form feed and carriage return are the       *)
(* strings "\t", "\n", "\f" and "\r", and every other character is the    *)
(* string "U+" followed by its code point in hexadecimal: "U+0661" is      *)
(* ARABIC-INDIC DIGIT ONE.                                                 *)
(***************************************************************************)
EXTENDS Integers, Sequences, FiniteSets, TLC

VARIABLES
    pc,              \* position of the single thread of control
    in_sprint,       \* self.in_sprint
    counter,         \* self.counter (ms)
    counter_float,   \* TRUE iff self.counter holds a float, FALSE iff an int
    run_time,        \* self.run_time (ms)
    iterations,      \* self.iterations
    sprint_time,     \* self.sprint_time (ms)
    break_time,      \* self.break_time (ms)
    max_iterations,  \* self.max_iterations
    pb,              \* TRUE iff self.pb is a PushBullet object
    linux,           \* TRUE iff sys.platform starts with 'linux'
    extend_time,     \* the last string input() returned at a transition prompt
    err,             \* the exception that ended the run, "none" while there is none
    exit_code,       \* the exit status of the process, -1 while it runs
    blocked,         \* ms spent blocked in input() since the last call of clock.tick
    since_confirm,   \* history: ms of wall-clock time since the last answered prompt
    n_breaks,        \* history: confirmed Sprint->Break transitions so far
    n_sprints,       \* history: confirmed Break->Sprint transitions so far
    extended,        \* history: TRUE once some prompt was answered with a non-empty response
    ext_pending,     \* history: the last answered prompt was answered with an extension
    ext_n,           \* history: the minutes of that extension
    ext_sum          \* history: sum of the deltas ticked since that extension

vars == <<pc, in_sprint, counter, counter_float, run_time, iterations,
          sprint_time, break_time, max_iterations, pb, linux, extend_time, err, n_breaks, n_sprints,
          extended, ext_pending, ext_n, ext_sum, exit_code, blocked,
          since_confirm>>

config == <<sprint_time, break_time, max_iterations, pb, linux>>
history == <<n_breaks, n_sprints, extended, ext_pending, ext_n, ext_sum>>
clock == <<blocked, since_confirm>>

----------------------------------------------------------------------------
(* Bounds and inputs *)

\* Largest --iterations value explored.
MaxIter == 1

\* Ticks stop being explored once run_time would pass this many minutes.
MaxRunMinutes == 5

\* s_time * 60 * 1000, b_time * 60 * 1000, time * 60 * 1000
MsPerMinute == 60000

\* --sprint_time and --break_time values explored (minutes)
SprintMinutes == {1, 2}
BreakMinutes == {1, 2}

\* Time (ms) between the previous call of clock.tick and this one, not
\* counting the time spent blocked in input(): half a minute, a minute and
\* one millisecond, so that a counter exactly on the boundary and a counter
\* just past it both occur.
Deltas == {30000, 60001}

\* Time (ms) the user lets a transition prompt wait before answering it.
Waits == {60000}

\* Lines typed at a transition prompt.
Responses ==
    { <<>>,
      <<"0">>, <<"1">>, <<"2">>,
      <<" ", "1">>, <<"-", "1">>,
      <<"1", "\r">>, <<"U+0661">>,
      <<"a", "b", "c">>, <<" ">>, <<"1", ".", "5">>, <<"1", "_">> }

----------------------------------------------------------------------------
(* int(str), base 10 *)

\* The decimal digits int() reads: the characters of Unicode category Nd,
\* one row per script, each row holding the digits of value 0 to 9 in order.
DigitRows ==
    << <<"0", "1", "2", "3", "4", "5", "6", "7", "8", "9">>,
       <<"U+0660", "U+0661", "U+0662", "U+0663", "U+0664",
        "U+0665", "U+0666", "U+0667", "U+0668", "U+0669">>,
       <<"U+06F0", "U+06F1", "U+06F2", "U+06F3", "U+06F4",
        "U+06F5", "U+06F6", "U+06F7", "U+06F8", "U+06F9">>,
       <<"U+07C0", "U+07C1", "U+07C2", "U+07C3", "U+07C4",
        "U+07C5", "U+07C6", "U+07C7", "U+07C8", "U+07C9">>,
       <<"U+0966", "U+0967", "U+0968", "U+0969", "U+096A",
        "U+096B", "U+096C", "U+096D", "U+096E", "U+096F">>,
       <<"U+09E6", "U+09E7", "U+09E8", "U+09E9", "U+09EA",
        "U+09EB", "U+09EC", "U+09ED", "U+09EE", "U+09EF">>,
       <<"U+0A66", "U+0A67", "U+0A68", "U+0A69", "U+0A6A",
        "U+0A6B", "U+0A6C", "U+0A6D", "U+0A6E", "U+0A6F">>,
       <<"U+0AE6", "U+0AE7", "U+0AE8", "U+0AE9", "U+0AEA",
        "U+0AEB", "U+0AEC", "U+0AED", "U+0AEE", "U+0AEF">>,
       <<"U+0B66", "U+0B67", "U+0B68", "U+0B69", "U+0B6A",
        "U+0B6B", "U+0B6C", "U+0B6D", "U+0B6E", "U+0B6F">>,
       <<"U+0BE6", "U+0BE7", "U+0BE8", "U+0BE9", "U+0BEA",
        "U+0BEB", "U+0BEC", "U+0BED", "U+0BEE", "U+0BEF">>,
       <<"U+0C66", "U+0C67", "U+0C68", "U+0C69", "U+0C6A",
        "U+0C6B", "U+0C6C", "U+0C6D", "U+0C6E", "U+0C6F">>,
       <<"U+0CE6", "U+0CE7", "U+0CE8", "U+0CE9", "U+0CEA",
        "U+0CEB", "U+0CEC", "U+0CED", "U+0CEE", "U+0CEF">>,
       <<"U+0D66", "U+0D67", "U+0D68", "U+0D69", "U+0D6A",
        "U+0D6B", "U+0D6C", "U+0D6D", "U+0D6E", "U+0D6F">>,
       <<"U+0DE6", "U+0DE7", "U+0DE8", "U+0DE9", "U+0DEA",
        "U+0DEB", "U+0DEC", "U+0DED", "U+0DEE", "U+0DEF">>,
       <<"U+0E50", "U+0E51", "U+0E52", "U+0E53", "U+0E54",
        "U+0E55", "U+0E56", "U+0E57", "U+0E58", "U+0E59">>,
       <<"U+0ED0", "U+0ED1", "U+0ED2", "U+0ED3", "U+0ED4",
        "U+0ED5", "U+0ED6", "U+0ED7", "U+0ED8", "U+0ED9">>,
       <<"U+0F20", "U+0F21", "U+0F22", "U+0F23", "U+0F24",
        "U+0F25", "U+0F26", "U+0F27", "U+0F28", "U+0F29">>,
       <<"U+1040", "U+1041", "U+1042", "U+1043", "U+1044",
        "U+1045", "U+1046", "U+1047", "U+1048", "U+1049">>,
       <<"U+1090", "U+1091", "U+1092", "U+1093", "U+1094",
        "U+1095", "U+1096", "U+1097", "U+1098", "U+1099">>,
       <<"U+17E0", "U+17E1", "U+17E2", "U+17E3", "U+17E4",
        "U+17E5", "U+17E6", "U+17E7", "U+17E8", "U+17E9">>,
       <<"U+1810", "U+1811", "U+1812", "U+1813", "U+1814",
        "U+1815", "U+1816", "U+1817", "U+1818", "U+1819">>,
       <<"U+1946", "U+1947", "U+1948", "U+1949", "U+194A",
        "U+194B", "U+194C", "U+194D", "U+194E", "U+194F">>,
       <<"U+19D0", "U+19D1", "U+19D2", "U+19D3", "U+19D4",
        "U+19D5", "U+19D6", "U+19D7", "U+19D8", "U+19D9">>,
       <<"U+1A80", "U+1A81", "U+1A82", "U+1A83", "U+1A84",
        "U+1A85", "U+1A86", "U+1A87", "U+1A88", "U+1A89">>,
       <<"U+1A90", "U+1A91", "U+1A92", "U+1A93", "U+1A94",
        "U+1A95", "U+1A96", "U+1A97", "U+1A98", "U+1A99">>,
       <<"U+1B50", "U+1B51", "U+1B52", "U+1B53", "U+1B54",
        "U+1B55", "U+1B56", "U+1B57", "U+1B58", "U+1B59">>,
       <<"U+1BB0", "U+1BB1", "U+1BB2", "U+1BB3", "U+1BB4",
        "U+1BB5", "U+1BB6", "U+1BB7", "U+1BB8", "U+1BB9">>,
       <<"U+1C40", "U+1C41", "U+1C42", "U+1C43", "U+1C44",
        "U+1C45", "U+1C46", "U+1C47", "U+1C48", "U+1C49">>,
       <<"U+1C50", "U+1C51", "U+1C52", "U+1C53", "U+1C54",
        "U+1C55", "U+1C56", "U+1C57", "U+1C58", "U+1C59">>,
       <<"U+A620", "U+A621", "U+A622", "U+A623", "U+A624",
        "U+A625", "U+A626", "U+A627", "U+A628", "U+A629">>,
       <<"U+A8D0", "U+A8D1", "U+A8D2", "U+A8D3", "U+A8D4",
        "U+A8D5", "U+A8D6", "U+A8D7", "U+A8D8", "U+A8D9">>,
       <<"U+A900", "U+A901", "U+A902", "U+A903", "U+A904",
        "U+A905", "U+A906", "U+A907", "U+A908", "U+A909">>,
       <<"U+A9D0", "U+A9D1", "U+A9D2", "U+A9D3", "U+A9D4",
        "U+A9D5", "U+A9D6", "U+A9D7", "U+A9D8", "U+A9D9">>,
       <<"U+A9F0", "U+A9F1", "U+A9F2", "U+A9F3", "U+A9F4",
        "U+A9F5", "U+A9F6", "U+A9F7", "U+A9F8", "U+A9F9">>,
       <<"U+AA50", "U+AA51", "U+AA52", "U+AA53", "U+AA54",
        "U+AA55", "U+AA56", "U+AA57", "U+AA58", "U+AA59">>,
       <<"U+ABF0", "U+ABF1", "U+ABF2", "U+ABF3", "U+ABF4",
        "U+ABF5", "U+ABF6", "U+ABF7", "U+ABF8", "U+ABF9">>,
       <<"U+FF10", "U+FF11", "U+FF12", "U+FF13", "U+FF14",
        "U+FF15", "U+FF16", "U+FF17", "U+FF18", "U+FF19">>,
       <<"U+104A0", "U+104A1", "U+104A2", "U+104A3", "U+104A4",
        "U+104A5", "U+104A6", "U+104A7", "U+104A8", "U+104A9">>,
       <<"U+10D30", "U+10D31", "U+10D32", "U+10D33", "U+10D34",
        "U+10D35", "U+10D36", "U+10D37", "U+10D38", "U+10D39">>,
       <<"U+11066", "U+11067", "U+11068", "U+11069", "U+1106A",
        "U+1106B", "U+1106C", "U+1106D", "U+1106E", "U+1106F">>,
       <<"U+110F0", "U+110F1", "U+110F2", "U+110F3", "U+110F4",
        "U+110F5", "U+110F6", "U+110F7", "U+110F8", "U+110F9">>,
       <<"U+11136", "U+11137", "U+11138", "U+11139", "U+1113A",
        "U+1113B", "U+1113C", "U+1113D", "U+1113E", "U+1113F">>,
       <<"U+111D0", "U+111D1", "U+111D2", "U+111D3", "U+111D4",
        "U+111D5", "U+111D6", "U+111D7", "U+111D8", "U+111D9">>,
       <<"U+112F0", "U+112F1", "U+112F2", "U+112F3", "U+112F4",
        "U+112F5", "U+112F6", "U+112F7", "U+112F8", "U+112F9">>,
       <<"U+11450", "U+11451", "U+11452", "U+11453", "U+11454",
        "U+11455", "U+11456", "U+11457", "U+11458", "U+11459">>,
       <<"U+114D0", "U+114D1", "U+114D2", "U+114D3", "U+114D4",
        "U+114D5", "U+114D6", "U+114D7", "U+114D8", "U+114D9">>,
       <<"U+11650", "U+11651", "U+11652", "U+11653", "U+11654",
        "U+11655", "U+11656", "U+11657", "U+11658", "U+11659">>,
       <<"U+116C0", "U+116C1", "U+116C2", "U+116C3", "U+116C4",
        "U+116C5", "U+116C6", "U+116C7", "U+116C8", "U+116C9">>,
       <<"U+11730", "U+11731", "U+11732", "U+11733", "U+11734",
        "U+11735", "U+11736", "U+11737", "U+11738", "U+11739">>,
       <<"U+118E0", "U+118E1", "U+118E2", "U+118E3", "U+118E4",
        "U+118E5", "U+118E6", "U+118E7", "U+118E8", "U+118E9">>,
       <<"U+11950", "U+11951", "U+11952", "U+11953", "U+11954",
        "U+11955", "U+11956", "U+11957", "U+11958", "U+11959">>,
       <<"U+11C50", "U+11C51", "U+11C52", "U+11C53", "U+11C54",
        "U+11C55", "U+11C56", "U+11C57", "U+11C58", "U+11C59">>,
       <<"U+11D50", "U+11D51", "U+11D52", "U+11D53", "U+11D54",
        "U+11D55", "U+11D56", "U+11D57", "U+11D58", "U+11D59">>,
       <<"U+11DA0", "U+11DA1", "U+11DA2", "U+11DA3", "U+11DA4",
        "U+11DA5", "U+11DA6", "U+11DA7", "U+11DA8", "U+11DA9">>,
       <<"U+16A60", "U+16A61", "U+16A62", "U+16A63", "U+16A64",
        "U+16A65", "U+16A66", "U+16A67", "U+16A68", "U+16A69">>,
       <<"U+16AC0", "U+16AC1", "U+16AC2", "U+16AC3", "U+16AC4",
        "U+16AC5", "U+16AC6", "U+16AC7", "U+16AC8", "U+16AC9">>,
       <<"U+16B50", "U+16B51", "U+16B52", "U+16B53", "U+16B54",
        "U+16B55", "U+16B56", "U+16B57", "U+16B58", "U+16B59">>,
       <<"U+1D7CE", "U+1D7CF", "U+1D7D0", "U+1D7D1", "U+1D7D2",
        "U+1D7D3", "U+1D7D4", "U+1D7D5", "U+1D7D6", "U+1D7D7">>,
       <<"U+1D7D8", "U+1D7D9", "U+1D7DA", "U+1D7DB", "U+1D7DC",
        "U+1D7DD", "U+1D7DE", "U+1D7DF", "U+1D7E0", "U+1D7E1">>,
       <<"U+1D7E2", "U+1D7E3", "U+1D7E4", "U+1D7E5", "U+1D7E6",
        "U+1D7E7", "U+1D7E8", "U+1D7E9", "U+1D7EA", "U+1D7EB">>,
       <<"U+1D7EC", "U+1D7ED", "U+1D7EE", "U+1D7EF", "U+1D7F0",
        "U+1D7F1", "U+1D7F2", "U+1D7F3", "U+1D7F4", "U+1D7F5">>,
       <<"U+1D7F6", "U+1D7F7", "U+1D7F8", "U+1D7F9", "U+1D7FA",
        "U+1D7FB", "U+1D7FC", "U+1D7FD", "U+1D7FE", "U+1D7FF">>,
       <<"U+1E140", "U+1E141", "U+1E142", "U+1E143", "U+1E144",
        "U+1E145", "U+1E146", "U+1E147", "U+1E148", "U+1E149">>,
       <<"U+1E2F0", "U+1E2F1", "U+1E2F2", "U+1E2F3", "U+1E2F4",
        "U+1E2F5", "U+1E2F6", "U+1E2F7", "U+1E2F8", "U+1E2F9">>,
       <<"U+1E950", "U+1E951", "U+1E952", "U+1E953", "U+1E954",
        "U+1E955", "U+1E956", "U+1E957", "U+1E958", "U+1E959">>,
       <<"U+1FBF0", "U+1FBF1", "U+1FBF2", "U+1FBF3", "U+1FBF4",
        "U+1FBF5", "U+1FBF6", "U+1FBF7", "U+1FBF8", "U+1FBF9">> >>

Digits == {DigitRows[k][i] : k \in 1..Len(DigitRows), i \in 1..10}

\* the value of every digit
DigitValue ==
    [c \in Digits |->
        CHOOSE v \in 0..9 : \E k \in 1..Len(DigitRows) : DigitRows[k][v + 1] = c]

DigitVal(c) == DigitValue[c]

\* The characters int() strips from both ends of the string.
Whitespace ==
    { "\t", "\n", "U+000B", "\f", "\r", " ",
      "U+0085", "U+00A0", "U+1680", "U+2000", "U+2001", "U+2002",
      "U+2003", "U+2004", "U+2005", "U+2006", "U+2007", "U+2008",
      "U+2009", "U+200A", "U+2028", "U+2029", "U+202F", "U+205F",
      "U+3000" }

RECURSIVE StripLeft(_)
StripLeft(s) ==
    IF s # <<>> /\ Head(s) \in Whitespace THEN StripLeft(Tail(s)) ELSE s

RECURSIVE StripRight(_)
StripRight(s) ==
    IF s # <<>> /\ s[Len(s)] \in Whitespace
    THEN StripRight(SubSeq(s, 1, Len(s) - 1))
    ELSE s

Strip(s) == StripRight(StripLeft(s))

\* digits, with single underscores allowed between two digits
IsNumeral(s) ==
    /\ s # <<>>
    /\ s[1] \in Digits
    /\ s[Len(s)] \in Digits
    /\ \A i \in 1..Len(s) : s[i] \in Digits \/ s[i] = "_"
    /\ \A i \in 1..(Len(s) - 1) : ~(s[i] = "_" /\ s[i + 1] = "_")

RECURSIVE NumeralValue(_)
NumeralValue(s) ==
    IF s = <<>> THEN 0
    ELSE LET last == s[Len(s)]
             rest == SubSeq(s, 1, Len(s) - 1)
         IN  IF last = "_" THEN NumeralValue(rest)
             ELSE 10 * NumeralValue(rest) + DigitVal(last)

\* int() converts at most this many digits (sys.get_int_max_str_digits(),
\* 4300 unless the interpreter is told otherwise)
MaxStrDigits == 4300

\* the digits of a numeral, underscores not counted
DigitCount(s) == Cardinality({i \in 1..Len(s) : s[i] \in Digits})

\* the numeral is within the limit on digits
WithinDigitLimit(s) == Len(s) <= MaxStrDigits \/ DigitCount(s) <= MaxStrDigits

\* a mutant of IntParse: a string that is no integer is read as 0
IntParseLenient(s) ==
    LET t == Strip(s)
        signed == t # <<>> /\ t[1] \in {"+", "-"}
        body == IF signed THEN Tail(t) ELSE t
        sign == IF signed /\ t[1] = "-" THEN -1 ELSE 1
    IN  IF IsNumeral(body)
        THEN [ok |-> TRUE, val |-> sign * NumeralValue(body)]
        ELSE [ok |-> TRUE, val |-> 0]

\* int(s): ok is FALSE where int raises ValueError.  Parsed(t) reads the
\* stripped string t, which is computed once.
IntParse(s) ==
    LET Parsed(t) ==
            LET signed == t # <<>> /\ t[1] \in {"+", "-"}
                body == IF signed THEN Tail(t) ELSE t
                sign == IF signed /\ t[1] = "-" THEN -1 ELSE 1
            IN  IF IsNumeral(body) /\ WithinDigitLimit(body)
                THEN [ok |-> TRUE, val |-> sign * NumeralValue(body)]
                ELSE [ok |-> FALSE, val |-> 0]
    IN  CHOOSE p \in {Parsed(t) : t \in {Strip(s)}} : TRUE

----------------------------------------------------------------------------
(* PomodoroTimer *)

\* __init__, up to the input() of print_welcome
Init ==
    /\ pc = "welcome"
    /\ counter = 0
    /\ counter_float = FALSE
    /\ run_time = 0
    /\ in_sprint = TRUE
    /\ sprint_time \in {m * MsPerMinute : m \in SprintMinutes}
    /\ break_time \in {m * MsPerMinute : m \in BreakMinutes}
    /\ max_iterations \in 0..MaxIter
    /\ iterations = 0
    /\ pb \in BOOLEAN
    /\ linux \in BOOLEAN
    /\ extend_time = <<>>
    /\ err = "none"
    /\ n_breaks = 0
    /\ n_sprints = 0
    /\ extended = FALSE
    /\ ext_pending = FALSE
    /\ ext_n = 0
    /\ ext_sum = 0
    /\ exit_code = -1
    /\ blocked = 0
    /\ since_confirm = 0

\* print_welcome: input() returns, __init__ returns, run() is entered
print_welcome ==
    /\ pc = "welcome"
    /\ pc' = "run"
    /\ UNCHANGED <<in_sprint, counter, counter_float, run_time, iterations, config,
                   extend_time, err, history, exit_code, clock>>

\* print_welcome: input() meets the end of its input and raises EOFError,
\* which nothing catches
print_welcome_raises ==
    /\ pc = "welcome"
    /\ pc' = "crashed"
    /\ err' = "EOFError"
    /\ exit_code' = 1
    /\ UNCHANGED <<in_sprint, counter, counter_float, run_time, iterations,
                   config, extend_time, history, clock>>

\* a mutant of LoopCond: the loop stops as soon as iterations reaches max_iterations
LoopCondStrict == iterations < max_iterations

\* run: the condition of the while loop
LoopCond == iterations <= max_iterations

\* a mutant of PhaseOver: a counter equal to the duration ends the phase
PhaseOverInclusive(c) ==
    IF in_sprint THEN c >= sprint_time ELSE c >= break_time

\* tick: the two comparisons that decide whether a transition is attempted
PhaseOver(c) ==
    IF in_sprint THEN c > sprint_time ELSE c > break_time

\* clock.tick: the ms since its previous call, which are the ms spent
\* blocked in input() during the previous tick plus the dt that passed since
ClockTick(dt) == blocked + dt

\* The durations are floats (--sprint_time and --break_time are parsed with
\* type=float), so the counter extend computes is a float, and so is every
\* sum of it and a delta.  An integer between -2^30 and 2^30 is a float
\* exactly.
SmallInt(x) == x \in -1073741824..1073741824

\* float(x) of an integer x raises OverflowError: x rounds to 2^1024 or more
FloatOverflows(x) ==
    /\ ~SmallInt(x)
    /\ (x >= 2^1024 - 2^970 \/ -x >= 2^1024 - 2^970)

\* the float nearest to the integer x, ties to the even mantissa (53 bits)
RoundFloat(x) ==
    IF SmallInt(x) THEN x
    ELSE LET a == IF x < 0 THEN -x ELSE x
             e == CHOOSE k \in Nat :
                      a < 2^(53 + k) /\ (k = 0 \/ 2^(52 + k) <= a)
             ulp == 2^e
             q == a \div ulp
             rem == a % ulp
             r == IF 2 * rem > ulp \/ (2 * rem = ulp /\ q % 2 = 1)
                  THEN q + 1 ELSE q
         IN  (IF x < 0 THEN -1 ELSE 1) * r * ulp

\* tick: self.counter += dt, with dt an int
CounterPlus(d) ==
    IF counter_float THEN RoundFloat(counter + d) ELSE counter + d

\* a mutant of tick_step: the delta is assigned to counter, not added
tick_step_assign(dt) ==
    /\ pc = "run"
    /\ LoopCond
    /\ run_time' = run_time + ClockTick(dt)
    /\ counter' = ClockTick(dt)
    /\ pc' = IF PhaseOver(counter')
             THEN (IF in_sprint THEN "start_break" ELSE "start_sprint")
             ELSE "run"
    /\ ext_sum' = IF ext_pending THEN ext_sum + ClockTick(dt) ELSE ext_sum
    /\ blocked' = 0
    /\ since_confirm' = IF ext_pending THEN since_confirm ELSE since_confirm + dt
    /\ UNCHANGED <<in_sprint, counter_float, iterations, config, extend_time,
                   err, n_breaks, n_sprints, extended, ext_pending, ext_n,
                   exit_code>>

\* tick: one pass of the loop body, up to the call of start_break or
\* start_sprint (pc says which was called)
tick_step(dt) ==
    /\ pc = "run"
    /\ LoopCond
    /\ run_time' = run_time + ClockTick(dt)
    /\ counter' = CounterPlus(ClockTick(dt))
    /\ pc' = IF PhaseOver(counter')
             THEN (IF in_sprint THEN "start_break" ELSE "start_sprint")
             ELSE "run"
    /\ ext_sum' = IF ext_pending THEN ext_sum + ClockTick(dt) ELSE ext_sum
    /\ blocked' = 0
    /\ since_confirm' = IF ext_pending THEN since_confirm ELSE since_confirm + dt
    /\ UNCHANGED <<in_sprint, counter_float, iterations, config, extend_time,
                   err, n_breaks, n_sprints, extended, ext_pending, ext_n,
                   exit_code>>

\* tick, explored while run_time stays within MaxRunMinutes
tick(dt) ==
    /\ run_time + ClockTick(dt) <= MaxRunMinutes * MsPerMinute
    /\ tick_step(dt)

\* run: the loop condition is false; the farewell is printed and exit() called
run_exit ==
    /\ pc = "run"
    /\ ~LoopCond
    /\ pc' = "done"
    /\ exit_code' = 0
    /\ UNCHANGED <<in_sprint, counter, counter_float, run_time, iterations, config,
                   extend_time, err, history, clock>>

\* start_break / start_sprint before input(): every notification call returns
notify_ok ==
    /\ pc \in {"start_break", "start_sprint"}
    /\ pc' = IF pc = "start_break" THEN "input_break" ELSE "input_sprint"
    /\ UNCHANGED <<in_sprint, counter, counter_float, run_time, iterations, config,
                   extend_time, err, history, exit_code, clock>>

\* input() at a transition prompt stays blocked for w ms before the user
\* answers; clock.tick is not called meanwhile
blocked_at_prompt(w) ==
    /\ pc \in {"input_break", "input_sprint"}
    /\ blocked = 0
    /\ blocked' = w
    /\ UNCHANGED <<pc, in_sprint, counter, counter_float, run_time, iterations,
                   config,
                   extend_time, err, history, exit_code, since_confirm>>

\* start_break / start_sprint: input() returns the line r; the timer goes
\* on to flash_terminal_off(), which waits for a child process
input_returns(r) ==
    /\ pc \in {"input_break", "input_sprint"}
    /\ pc' = IF pc = "input_break" THEN "flash_off_break" ELSE "flash_off_sprint"
    /\ extend_time' = r
    /\ UNCHANGED <<in_sprint, counter, counter_float, run_time, iterations,
                   config, err, history, exit_code, clock>>

\* start_break / start_sprint: input() meets the end of its input and raises
\* EOFError, which nothing catches
input_raises ==
    /\ pc \in {"input_break", "input_sprint"}
    /\ pc' = "crashed"
    /\ err' = "EOFError"
    /\ exit_code' = 1
    /\ UNCHANGED <<in_sprint, counter, counter_float, run_time, iterations,
                   config, extend_time, history, clock>>

\* send_notifcation: subprocess.run raises (no notify-send to execute);
\* nothing between here and the top level catches it
send_notifcation_raises ==
    /\ pc \in {"start_break", "start_sprint"}
    /\ linux
    /\ pc' = "crashed"
    /\ err' = "FileNotFoundError"
    /\ exit_code' = 1
    /\ UNCHANGED <<in_sprint, counter, counter_float, run_time, iterations, config,
                   extend_time, history, clock>>

\* pb.push_note raises (no network); nothing catches it
push_note_raises ==
    /\ pc \in {"start_break", "start_sprint"}
    /\ pb
    /\ pc' = "crashed"
    /\ err' = "PushError"
    /\ exit_code' = 1
    /\ UNCHANGED <<in_sprint, counter, counter_float, run_time, iterations, config,
                   extend_time, history, clock>>

\* a mutant of ExtendedCounter: the extension is clamped at zero
ExtendedCounterClamped(time) ==
    LET c == IF in_sprint THEN sprint_time - (time * MsPerMinute)
                          ELSE break_time - (time * MsPerMinute)
    IN  IF c < 0 THEN 0 ELSE c

\* a mutant of ExtendedCounter: the extension is taken off the current counter
ExtendedCounterRelative(time) == counter - (time * MsPerMinute)

\* extend: the value assigned to self.counter, a float: the duration less
\* time * 60 * 1000 converted to a float
ExtendedCounter(time) ==
    IF in_sprint THEN RoundFloat(sprint_time - RoundFloat(time * MsPerMinute))
                 ELSE RoundFloat(break_time - RoundFloat(time * MsPerMinute))

\* extend: time * 60 * 1000 is too large for a float and the subtraction
\* raises OverflowError
ExtendRaises(time) == FloatOverflows(time * MsPerMinute)

\* extend(time), returning
extend(time) ==
    /\ ~ExtendRaises(time)
    /\ counter' = ExtendedCounter(time)
    /\ counter_float' = TRUE
    /\ UNCHANGED <<in_sprint, iterations>>

\* extend(time), raising before self.counter is assigned
extend_raises(time) ==
    /\ ExtendRaises(time)
    /\ UNCHANGED <<in_sprint, counter, counter_float, iterations>>

\* a mutant of ConfirmBreak: the counter is not reset
ConfirmBreakNoReset ==
    /\ in_sprint' = FALSE
    /\ counter' = counter
    /\ counter_float' = counter_float
    /\ iterations' = iterations

\* a mutant of ConfirmBreak: the break counts as an iteration
ConfirmBreakCounting ==
    /\ in_sprint' = FALSE
    /\ counter' = 0
    /\ counter_float' = FALSE
    /\ iterations' = iterations + 1

\* start_break, confirmed: the assignments after the prompt
ConfirmBreak ==
    /\ in_sprint' = FALSE
    /\ counter' = 0
    /\ counter_float' = FALSE
    /\ iterations' = iterations

\* a mutant of ConfirmSprint: the new sprint is not counted
ConfirmSprintNoCount ==
    /\ in_sprint' = TRUE
    /\ counter' = 0
    /\ counter_float' = FALSE
    /\ iterations' = iterations

\* start_sprint, confirmed: the assignments after the prompt
ConfirmSprint ==
    /\ in_sprint' = TRUE
    /\ counter' = 0
    /\ counter_float' = FALSE
    /\ iterations' = iterations + 1

\* the line r is an integer that extend accepts
Extends(r) ==
    /\ r # <<>>
    /\ LET n == IntParse(r) IN n.ok /\ ~ExtendRaises(n.val)

\* the history variables after the prompt was answered with r
Answered(r, confirmed_break, confirmed_sprint) ==
    /\ n_breaks' = IF confirmed_break THEN n_breaks + 1 ELSE n_breaks
    /\ n_sprints' = IF confirmed_sprint THEN n_sprints + 1 ELSE n_sprints
    /\ extended' = (extended \/ r # <<>>)
    /\ ext_pending' = Extends(r)
    /\ ext_n' = IF Extends(r) THEN IntParse(r).val ELSE 0
    /\ ext_sum' = 0
    /\ since_confirm' = 0

\* a mutant of start_break: the return after extend is missing
start_break_no_return(r) ==
    /\ pc = "flash_off_break"
    /\ r = extend_time
    /\ extend_time' = r
    /\ IF r # <<>> /\ ~IntParse(r).ok
       THEN /\ pc' = "crashed"
            /\ err' = "ValueError"
            /\ exit_code' = 1
            /\ UNCHANGED <<in_sprint, counter, counter_float, iterations>>
            /\ Answered(r, FALSE, FALSE)
       ELSE /\ pc' = "run"
            /\ err' = err
            /\ exit_code' = exit_code
            /\ ConfirmBreak
            /\ Answered(r, r = <<>>, FALSE)
    /\ UNCHANGED <<run_time, config, blocked>>

\* start_break from the return of flash_terminal_off(): r is the line typed
start_break(r) ==
    /\ pc = "flash_off_break"
    /\ r = extend_time
    /\ extend_time' = r
    /\ IF r # <<>>
       THEN IF IntParse(r).ok
            THEN IF ExtendRaises(IntParse(r).val)
                 THEN /\ extend_raises(IntParse(r).val)
                      /\ pc' = "crashed"
                      /\ err' = "OverflowError"
                      /\ exit_code' = 1
                 ELSE /\ extend(IntParse(r).val)
                      /\ pc' = "run"
                      /\ err' = err
                      /\ exit_code' = exit_code
            ELSE /\ pc' = "crashed"
                 /\ err' = "ValueError"
                 /\ exit_code' = 1
                 /\ UNCHANGED <<in_sprint, counter, counter_float, iterations>>
       ELSE /\ ConfirmBreak
            /\ pc' = "run"
            /\ err' = err
            /\ exit_code' = exit_code
    /\ Answered(r, r = <<>>, FALSE)
    /\ UNCHANGED <<run_time, config, blocked>>

\* a mutant of start_sprint: the integer typed is tested, so 0 confirms
start_sprint_zero_confirms(r) ==
    /\ pc = "flash_off_sprint"
    /\ r = extend_time
    /\ extend_time' = r
    /\ IF r # <<>> /\ ~IntParse(r).ok
       THEN /\ pc' = "crashed"
            /\ err' = "ValueError"
            /\ exit_code' = 1
            /\ UNCHANGED <<in_sprint, counter, counter_float, iterations>>
       ELSE /\ IF r # <<>> /\ IntParse(r).val # 0
               THEN extend(IntParse(r).val)
               ELSE ConfirmSprint
            /\ pc' = "run"
            /\ err' = err
            /\ exit_code' = exit_code
    /\ Answered(r, FALSE, r = <<>>)
    /\ UNCHANGED <<run_time, config, blocked>>

\* start_sprint from the return of flash_terminal_off(): r is the line typed
start_sprint(r) ==
    /\ pc = "flash_off_sprint"
    /\ r = extend_time
    /\ extend_time' = r
    /\ IF r # <<>>
       THEN IF IntParse(r).ok
            THEN IF ExtendRaises(IntParse(r).val)
                 THEN /\ extend_raises(IntParse(r).val)
                      /\ pc' = "crashed"
                      /\ err' = "OverflowError"
                      /\ exit_code' = 1
                 ELSE /\ extend(IntParse(r).val)
                      /\ pc' = "run"
                      /\ err' = err
                      /\ exit_code' = exit_code
            ELSE /\ pc' = "crashed"
                 /\ err' = "ValueError"
                 /\ exit_code' = 1
                 /\ UNCHANGED <<in_sprint, counter, counter_float, iterations>>
       ELSE /\ ConfirmSprint
            /\ pc' = "run"
            /\ err' = err
            /\ exit_code' = exit_code
    /\ Answered(r, FALSE, r = <<>>)
    /\ UNCHANGED <<run_time, config, blocked>>

\* __main__: the positions inside the try block, which holds the
\* constructor (the welcome prompt) and p.run()
Running == {"welcome", "run", "start_break", "start_sprint",
            "input_break", "input_sprint",
            "flash_off_break", "flash_off_sprint"}

\* __main__: KeyboardInterrupt is raised inside the try block and control
\* passes to the except clause
keyboard_interrupt ==
    /\ pc \in Running
    /\ pc' = "except"
    /\ UNCHANGED <<in_sprint, counter, counter_float, run_time, iterations,
                   config, extend_time, err, history, exit_code, clock>>

\* __main__, the except clause: 'Goodbye :)' is printed and exit() called
farewell ==
    /\ pc = "except"
    /\ pc' = "goodbye"
    /\ exit_code' = 0
    /\ UNCHANGED <<in_sprint, counter, counter_float, run_time, iterations,
                   config, extend_time, err, history, clock>>

\* __main__, the except clause: a second KeyboardInterrupt is raised while
\* the farewell is printed; nothing catches it and the process is killed by
\* SIGINT (status 128 + 2)
interrupt_in_handler ==
    /\ pc = "except"
    /\ pc' = "crashed"
    /\ err' = "KeyboardInterrupt"
    /\ exit_code' = 130
    /\ UNCHANGED <<in_sprint, counter, counter_float, run_time, iterations,
                   config, extend_time, history, clock>>

Next ==
    \/ print_welcome
    \/ print_welcome_raises
    \/ \E dt \in Deltas : tick(dt)
    \/ run_exit
    \/ notify_ok
    \/ \E w \in Waits : blocked_at_prompt(w)
    \/ \E r \in Responses : input_returns(r)
    \/ input_raises
    \/ send_notifcation_raises
    \/ push_note_raises
    \/ \E r \in Responses : start_break(r)
    \/ \E r \in Responses : start_sprint(r)
    \/ keyboard_interrupt
    \/ farewell
    \/ interrupt_in_handler

Spec == Init /\ [][Next]_vars

\* The runs of the termination claim: every tick delivers a positive
\* delta, every transition prompt is answered with the empty line or an
\* integer, and no interrupt arrives.  Prompts are answered with an
\* extension only during the first MaxRunMinutes of run_time, so that a run
\* holds finitely many extensions; ticks go on for as long as the loop does.
\* The calls the timer makes on the way may raise as in Spec.

LiveResponses == {r \in Responses : r = <<>> \/ Extends(r)}

MayExtend == run_time <= MaxRunMinutes * MsPerMinute

live_input_returns ==
    \E r \in LiveResponses : (r # <<>> => MayExtend) /\ input_returns(r)

LiveNext ==
    \/ print_welcome
    \/ print_welcome_raises
    \/ \E dt \in Deltas : tick_step(dt)
    \/ run_exit
    \/ notify_ok
    \/ send_notifcation_raises
    \/ push_note_raises
    \/ \E w \in Waits : blocked_at_prompt(w)
    \/ live_input_returns
    \/ \E r \in Responses : start_break(r)
    \/ \E r \in Responses : start_sprint(r)

\* The one thread of control always takes its next step while it has one:
\* the loop goes on ticking and the user answers every prompt.
LiveSpec == Init /\ [][LiveNext]_vars /\ WF_vars(LiveNext)

----------------------------------------------------------------------------
(* Kinds of step *)

\* the line typed has been read and is about to be acted on
Answering == pc \in {"flash_off_break", "flash_off_sprint"}

\* one pass of the loop body
TickStep == pc = "run" /\ run_time' # run_time

\* the line typed at a transition prompt is acted on
ResponseStep == Answering /\ pc' \in {"run", "crashed"}

\* the prompt was answered with the empty line and the transition made
ConfirmStep == Answering /\ pc' = "run" /\ extend_time' = <<>>

\* the prompt was answered with an integer and extend was called
ExtendStep == Answering /\ pc' = "run" /\ extend_time' # <<>>

\* the duration of the current phase
PhaseDuration == IF in_sprint THEN sprint_time ELSE break_time

\* a non-empty line without a single digit
NonNumeric(r) == r # <<>> /\ \A i \in 1..Len(r) : r[i] \notin Digits

----------------------------------------------------------------------------
(* Properties *)

\* C1: in every tick, once the delta is added to counter, start_break is
\* called iff the timer is in a sprint and counter > sprint_time, and
\* start_sprint is called iff it is in a break and counter > break_time;
\* a counter equal to the duration calls neither.
C1_TickBoundary ==
    [][TickStep =>
        /\ counter' > counter
        /\ (pc' = "start_break") <=> (in_sprint /\ counter' > sprint_time)
        /\ (pc' = "start_sprint") <=> (~in_sprint /\ counter' > break_time)
        /\ (pc' = "run") <=> (counter' <= PhaseDuration)]_vars

\* a break whose counter is exactly break_time, above sprint_time, and
\* still ticking
C1_Witness ==
    /\ pc = "run"
    /\ ~in_sprint
    /\ ~extended
    /\ counter = break_time
    /\ break_time > sprint_time

\* C2: the loop of run has exited only in states with
\* iterations > max_iterations; at the head of the loop it cannot exit while
\* iterations <= max_iterations, and it cannot tick once
\* iterations > max_iterations.
C2_LoopExit ==
    /\ pc = "done" => iterations > max_iterations
    /\ (pc = "run" /\ iterations <= max_iterations) => ~ENABLED run_exit
    /\ (pc = "run" /\ iterations > max_iterations) =>
            /\ ENABLED run_exit
            /\ \A dt \in Deltas : ~ENABLED tick(dt)

\* the loop exited after a run in which some prompt was answered with an
\* extension
C2_Witness ==
    /\ pc = "done"
    /\ extended
    /\ max_iterations = 1
    /\ iterations = 2

\* C3: a confirmed transition negates in_sprint and sets counter to 0.
C3_ConfirmFlipsAndResets ==
    [][ConfirmStep => /\ in_sprint' = ~in_sprint
                      /\ counter' = 0
                      /\ counter > PhaseDuration]_vars

\* both transitions have been confirmed, the last one just now
C3_Witness ==
    /\ pc = "run"
    /\ extend_time = <<>>
    /\ counter = 0
    /\ n_breaks >= 1
    /\ n_sprints >= 1

\* C4: iterations stays or grows by 1 in every step, and grows exactly in
\* the steps that confirm a Break->Sprint transition.
C4_IterationsCount ==
    [][/\ iterations' \in {iterations, iterations + 1}
       /\ (iterations' = iterations + 1) <=>
              (pc = "flash_off_sprint" /\ pc' = "run" /\ extend_time' = <<>>)]_vars

\* an iteration was counted in a run that also extended a phase and
\* confirmed a break
C4_Witness ==
    /\ iterations = 1
    /\ n_breaks = 2
    /\ extended
    /\ pc = "input_sprint"

\* C5: extend(N) sets counter to the current phase's duration minus
\* N * 60000, whatever counter was and without clamping, and leaves
\* in_sprint alone.
C5_ExtendSetsCounter ==
    [][ExtendStep =>
        /\ counter' = PhaseDuration - IntParse(extend_time').val * MsPerMinute
        /\ in_sprint' = in_sprint
        /\ extend_time' = <<"2">> => counter' = PhaseDuration - 2 * MsPerMinute
        /\ extend_time' = <<"0">> => counter' = PhaseDuration
        /\ extend_time' = <<"-", "1">> => counter' = PhaseDuration + MsPerMinute]_vars

\* an extension longer than the phase has just left a negative counter
C5_Witness ==
    /\ pc = "run"
    /\ ext_pending
    /\ ext_sum = 0
    /\ ext_n = 2
    /\ counter < 0

\* C6: in_sprint changes only in a confirmed transition; a tick and an
\* extension answered at either prompt leave in_sprint and iterations as
\* they were.
C6_PhaseChangesOnlyOnConfirm ==
    [][/\ (in_sprint' # in_sprint) => ConfirmStep
       /\ (TickStep \/ ExtendStep) =>
              (in_sprint' = in_sprint /\ iterations' = iterations)]_vars

\* a break has just been extended at the start_sprint prompt
C6_Witness ==
    /\ pc = "run"
    /\ ~in_sprint
    /\ ext_pending
    /\ ext_sum = 0
    /\ ext_n = 1
    /\ extend_time = <<"1">>

\* C7: a non-empty response without digits ends the prompt with ValueError
\* and leaves in_sprint, counter and iterations as they were.
C7_MalformedResponse ==
    [][(ResponseStep /\ NonNumeric(extend_time')) =>
        /\ pc' = "crashed"
        /\ err' = "ValueError"
        /\ in_sprint' = in_sprint
        /\ counter' = counter
        /\ iterations' = iterations]_vars

\* "abc" was typed at the start_sprint prompt
C7_Witness ==
    /\ pc = "crashed"
    /\ err = "ValueError"
    /\ extend_time = <<"a", "b", "c">>
    /\ ~in_sprint
    /\ counter > break_time

\* C8: a notification call that raises does not abort the run.
C8_NotificationFailureDoesNotAbort ==
    ~(pc = "crashed" /\ err \in {"FileNotFoundError", "PushError"})

\* C9: when every prompt is answered with confirm, the loop exits after
\* exactly max_iterations + 1 confirmed transitions of each kind; with
\* max_iterations = 1 it cannot exit at iterations = 1 and has exited only
\* with iterations = 2.
C9_ConfirmedCycles ==
    /\ (pc = "done" /\ ~extended) =>
            /\ n_breaks = max_iterations + 1
            /\ n_sprints = max_iterations + 1
    /\ (~extended /\ pc # "done") => n_sprints <= max_iterations + 1
    /\ (max_iterations = 1 /\ iterations = 1) =>
            (pc # "done" /\ ~ENABLED run_exit)
    /\ (max_iterations = 1 /\ pc = "done") => iterations = 2

\* the run with max_iterations = 1 ended with every prompt confirmed
C9_Witness ==
    /\ pc = "done"
    /\ ~extended
    /\ max_iterations = 1
    /\ n_breaks = 2
    /\ n_sprints = 2

\* C10: after an extension of N >= 0 minutes, a tick calls start_break or
\* start_sprint iff the deltas ticked since the extension sum to more than
\* N * 60000.
C10_ExtensionDelaysPrompt ==
    [][(TickStep /\ ext_pending /\ ext_n >= 0) =>
        /\ ext_sum' > ext_sum
        /\ (pc' \in {"start_break", "start_sprint"}) <=>
               (ext_sum' > ext_n * MsPerMinute)
        /\ (pc' = "run") <=> (ext_sum' <= ext_n * MsPerMinute)]_vars

\* a break of one minute extended by two minutes has run out
C10_Witness ==
    /\ pc = "start_sprint"
    /\ ext_pending
    /\ ext_n = 2
    /\ break_time = MsPerMinute
    /\ ext_sum > 2 * MsPerMinute

\* a non-empty line of digits alone
AllDigits(r) == r # <<>> /\ \A i \in 1..Len(r) : r[i] \in Digits

\* C11 as stated: counter decreases only in a confirmed transition.
C11_CounterMonotone ==
    [][counter' < counter => ConfirmStep]_vars

\* C11, amended: counter never decreases in a tick; it decreases only in a
\* step that answers a transition prompt, where a confirm sets it to 0 and
\* an extension sets it to the duration less the extension.
C11_CounterDecreasesOnlyAtPrompt ==
    [][/\ TickStep => counter' >= counter + blocked
       /\ counter' < counter => (ConfirmStep \/ ExtendStep)
       /\ ConfirmStep => counter' = 0
       /\ (ExtendStep /\ IntParse(extend_time').val >= 0) => counter' < counter]_vars

\* a sprint has just been extended by 0 minutes, which took counter from
\* above sprint_time back to sprint_time
C11_Witness ==
    /\ pc = "run"
    /\ in_sprint
    /\ ext_pending
    /\ ext_n = 0
    /\ ext_sum = 0
    /\ counter = sprint_time

\* C12: a negative extension is never applied so that counter ends above
\* the duration of the current phase.
C12_NegativeExtensionRejected ==
    ~(pc = "run" /\ ext_pending /\ ext_n < 0 /\ counter > PhaseDuration)

\* C13: an interrupt is never left uncaught, and a run that was interrupted
\* ends with the farewell and exit code 0.
C13_InterruptCaught ==
    /\ err # "KeyboardInterrupt"
    /\ pc = "goodbye" => exit_code = 0

\* C14: with positive deltas and every prompt answered, finitely often with
\* an extension, the run loop, once entered, reaches
\* iterations > max_iterations and exits.
C14_RunTerminates ==
    (pc = "run") ~> (pc = "done" /\ iterations > max_iterations)

\* C15: a response confirms iff it is empty; a response of digits, "0"
\* included, extends by its value, leaving in_sprint and iterations alone,
\* and "0" sets counter to the duration of the current phase.
C15_OnlyEmptyConfirms ==
    [][ResponseStep =>
        /\ (extend_time' = <<>>) <=> (in_sprint' # in_sprint)
        /\ AllDigits(extend_time') =>
              /\ pc' = "run"
              /\ in_sprint' = in_sprint
              /\ iterations' = iterations
              /\ counter' =
                   PhaseDuration - NumeralValue(extend_time') * MsPerMinute
        /\ extend_time' = <<"0">> => counter' = PhaseDuration]_vars

\* "0" was typed at the start_sprint prompt
C15_Witness ==
    /\ pc = "run"
    /\ ~in_sprint
    /\ extend_time = <<"0">>
    /\ ext_sum = 0
    /\ counter = break_time

\* C16: 0 <= iterations <= max_iterations + 1 always, and once the loop has
\* exited iterations = max_iterations + 1, in_sprint is TRUE and counter is 0.
C16_IterationsRange ==
    /\ 0 <= iterations
    /\ iterations <= max_iterations + 1
    /\ pc = "done" =>
          /\ iterations = max_iterations + 1
          /\ in_sprint
          /\ counter = 0
          /\ extend_time = <<>>

\* the loop exited with max_iterations = 0 after a run with an extension
C16_Witness ==
    /\ pc = "done"
    /\ max_iterations = 0
    /\ iterations = 1
    /\ in_sprint
    /\ counter = 0
    /\ extended

\* C17: the first transition after a confirmed transition is attempted only
\* when more than the phase's duration of wall-clock time has passed since
\* the confirmation.
C17_PromptTimeNotCharged ==
    (/\ pc \in {"start_break", "start_sprint"}
     /\ ~ext_pending
     /\ n_breaks + n_sprints > 0) => since_confirm > PhaseDuration

====
